---- MODULE Spec2Model ----
(***************************************************************************)
(* A model of the chat page (component Home) of the AI Developer Assistant *)
(* front end: the session collection kept in React state and mirrored to   *)
(* localStorage, and the asynchronous ask-codebase / ingest round trips.   *)
(*                                                                         *)
(* Conventions.                                                            *)
(*  - A JavaScript string is a sequence of one-character strings, so that  *)
(*    slice, startsWith and concatenation are computed as the code does.   *)
(*  - An event handler reads the React state of the render it was created  *)
(*    in.  Every state update is rendered before the next event, so a      *)
(*    handler invoked by the user reads the current state; the             *)
(*    continuation of an awaited call keeps the values its handler         *)
(*    captured when it started.  All setState calls of one handler run are *)
(*    applied together, the last call for a state variable winning.        *)
(*  - Date.now() is the variable now; every read advances it, so two reads *)
(*    never return the same value.                                         *)
(***************************************************************************)
EXTENDS Integers, Sequences, FiniteSets, TLC

VARIABLES
    mounted,          \* the mount-time effect has run
    sessions,         \* useState<ChatSession[]>
    activeSessionId,  \* useState<string | null>
    repoUrl,          \* useState("") of the repo URL input
    ingestStatus,     \* "idle" | "loading" | "success" | "error"
    chatInput,        \* useState("") of the chat input
    chatLoading,      \* useState(false)
    showSuggestions,  \* useState(false)
    filteredCmds,     \* useState(COMMANDS)
    localStorage,     \* the value stored under the key chat_history
    pendingChat,      \* ask-codebase calls awaiting their response
    pendingIngest,    \* ingest calls awaiting their response
    idleTimers,       \* scheduled setTimeout(() => setIngestStatus("idle"), 3000)
    now,              \* Date.now()
    orphaned,         \* history: the session ids of pending calls whose session
                      \* a confirmed deleteSession removed while they were pending
    \* component Mermaid, one instance
    rendered,         \* the instance is mounted and its effects have run
    chart,            \* the prop chart
    svg,              \* useState("")
    status,           \* "loading" | "error" | "success" | "empty"
    isZoomed,         \* useState(false)
    zoomLevel,        \* useState(1), in hundredths: 100 is 1.0
    pendingRender     \* mermaid.render calls awaiting their result

homeVars == <<mounted, sessions, activeSessionId, repoUrl, ingestStatus, chatInput,
              chatLoading, showSuggestions, filteredCmds, localStorage,
              pendingChat, pendingIngest, idleTimers, now, orphaned>>

mermaidVars == <<rendered, chart, svg, status, isZoomed, zoomLevel, pendingRender>>

vars == <<homeVars, mermaidVars>>

-----------------------------------------------------------------------------
(* Bounds of the model *)

\* Date.now() is read at most MaxClock times in a behaviour
MaxClock == 4
\* ask-codebase calls pending at the same time
MaxPendingChat == 2
\* ingest calls pending at the same time
MaxPendingIngest == 1
\* mermaid.render calls pending at the same time
MaxPendingRender == 2

-----------------------------------------------------------------------------
(* JavaScript values *)

\* null and undefined: neither is a text nor a session id
Null == <<"null">>
Undefined == <<"undefined">>

Min(a, b) == IF a < b THEN a ELSE b

Max(a, b) == IF a > b THEN a ELSE b

\* the zoom levels of Mermaid, in hundredths: 1, 0.25, 5 and 0.5
ZoomDefault == 100
ZoomStep == 25
ZoomMax == 500
ZoomMin == 50

\* String.prototype.slice(from, to) for 0 <= from <= to
Slice(s, from, to) == SubSeq(s, from + 1, Min(to, Len(s)))

\* String.prototype.startsWith
StartsWith(s, prefix) ==
    /\ Len(prefix) <= Len(s)
    /\ SubSeq(s, 1, Len(prefix)) = prefix

\* a || b on strings and undefined
OrElse(a, b) == IF a = Undefined \/ a = <<>> THEN b ELSE a

Ellipsis == <<".", ".", ".">>
NewChatTitle == <<"N", "e", "w", " ", "C", "h", "a", "t">>
RepoChatTitle == <<"R", "e", "p", "o", " ", "C", "h", "a", "t">>
TitleLimit == 30

\* the character U+274C followed by the fixed text of the catch branch
ErrorText ==
    <<"U+274C", " ", "E", "r", "r", "o", "r", " ", "c", "o", "n", "n", "e", "c",
      "t", "i", "n", "g", " ", "t", "o", " ", "A", "I", ".", " ", "P", "l", "e",
      "a", "s", "e", " ", "t", "r", "y", " ", "a", "g", "a", "i", "n", ".">>
\* the character U+2705 followed by the acknowledgment of a successful ingest
IngestedText ==
    <<"U+2705", " ", "R", "e", "p", "o", " ", "i", "n", "g", "e", "s", "t", "e",
      "d", " ", "s", "u", "c", "c", "e", "s", "s", "f", "u", "l", "l", "y", "!",
      " ", "I", "'", "m", " ", "r", "e", "a", "d", "y", " ", "t", "o", " ", "a",
      "n", "s", "w", "e", "r", " ", "q", "u", "e", "s", "t", "i", "o", "n", "s",
      ".">>
SourcesPrefix == <<"S", "o", "u", "r", "c", "e", "s", ":", " ">>
Comma == <<",", " ">>

\* an id that does not depend on the clock value read
SessIdWithoutClock(t) == <<"sess_", 0>>

\* "sess_" + Date.now().toString()
SessId(t) == <<"sess_", t>>

-----------------------------------------------------------------------------
(* The inputs the environment supplies *)

InHi == <<"h", "i">>
InSec == <<"/", "s", "e", "c">>
\* what the user types into the chat input
ChatInputs == {InSec}

\* "Explain this function please": 28 characters
InExplain ==
    <<"E", "x", "p", "l", "a", "i", "n", " ", "t", "h", "i", "s", " ", "f", "u",
      "n", "c", "t", "i", "o", "n", " ", "p", "l", "e", "a", "s", "e">>
\* "How does the ingest pipeline work?": 34 characters
InLong ==
    <<"H", "o", "w", " ", "d", "o", "e", "s", " ", "t", "h", "e", " ", "i", "n",
      "g", "e", "s", "t", " ", "p", "i", "p", "e", "l", "i", "n", "e", " ", "w",
      "o", "r", "k", "?">>
InZzz == <<"/", "z", "z", "z">>
InSecUpper == <<"/", "S", "E", "C">>
InSlash == <<"/">>
\* what the user types while the command palette is in use
PaletteInputs == {InSec, InSecUpper, InZzz, InSlash, InHi}

\* first messages shorter than, and longer than, the title limit
TitleInputs == {InHi, InExplain, InLong}

UrlA == <<"h", "t", "t", "p", "s", ":", "/", "/", "a", ".", "b">>
\* what the user types into the repo URL input
RepoUrls == {UrlA}

AnswerText == <<"I", "t", " ", "w", "o", "r", "k", "s">>
ContextText == <<"d", "e", "f", " ", "f">>
SourceA == <<"a", ".", "p", "y">>
SourceB == <<"b", ".", "p", "y">>
\* res.data of a 2xx answer of POST /ask-codebase
Responses ==
    { [answer |-> AnswerText, context_used |-> ContextText],
      [answer |-> AnswerText, sources |-> <<SourceA, SourceB>>] }
\* the awaited axios.post rejects (network error or a non-2xx status)
Rejected == [error |-> "rejected"]

-----------------------------------------------------------------------------
(* Messages, sessions and their JSON form *)

Message(role, content, context, timestamp) ==
    [role |-> role, content |-> content, context |-> context,
     timestamp |-> timestamp]

ChatSession(id, title, messages, url) ==
    [id |-> id, title |-> title, messages |-> messages, repoUrl |-> url]

Ids(ss) == {ss[i].id : i \in DOMAIN ss}

\* sessions.find(s => s.id === id)?.messages || []
MessagesOf(ss, id) ==
    IF \E i \in DOMAIN ss : ss[i].id = id
    THEN ss[CHOOSE i \in DOMAIN ss :
                /\ ss[i].id = id
                /\ \A j \in DOMAIN ss : ss[j].id = id => i <= j].messages
    ELSE <<>>

\* JSON.stringify of a message: a property whose value is undefined is left out
StringifyMessage(m) ==
    IF m.context = Undefined
    THEN [role |-> m.role, content |-> m.content, timestamp |-> m.timestamp]
    ELSE [role |-> m.role, content |-> m.content, context |-> m.context,
          timestamp |-> m.timestamp]

\* JSON.parse of a message: a property that is absent reads as undefined
ParseMessage(j) ==
    [role |-> j.role, content |-> j.content,
     context |-> IF "context" \in DOMAIN j THEN j.context ELSE Undefined,
     timestamp |-> j.timestamp]

StringifySession(s) ==
    [id |-> s.id, title |-> s.title,
     messages |-> [k \in DOMAIN s.messages |-> StringifyMessage(s.messages[k])],
     repoUrl |-> s.repoUrl]

ParseSession(j) ==
    [id |-> j.id, title |-> j.title,
     messages |-> [k \in DOMAIN j.messages |-> ParseMessage(j.messages[k])],
     repoUrl |-> j.repoUrl]

\* JSON.stringify(newSessions), the string kept under chat_history
JSONstringify(ss) ==
    [kind |-> "json", value |-> [i \in DOMAIN ss |-> StringifySession(ss[i])]]

\* JSON.parse(saved) of a string that parses
JSONparse(item) == [i \in DOMAIN item.value |-> ParseSession(item.value[i])]

\* localStorage.getItem returned null: the key is absent
Absent == [kind |-> "absent"]
\* the key holds a string that JSON.parse rejects
Invalid == [kind |-> "invalid"]

\* sessions an earlier visit left under chat_history, newest first
StoredA ==
    ChatSession(SessId(-1), InHi \o Ellipsis,
                <<Message("user", InHi, Undefined, -1),
                  Message("ai", AnswerText, ContextText, 0)>>, UrlA)
StoredB == ChatSession(SessId(0), NewChatTitle, <<>>, <<>>)
\* what chat_history can hold when the page is opened
StoredAtMount ==
    {Absent, Invalid, JSONstringify(<<>>), JSONstringify(<<StoredB, StoredA>>)}

-----------------------------------------------------------------------------
(* The fixed command table *)

COMMANDS ==
    << [cmd |-> <<"/", "r", "e", "f", "a", "c", "t", "o", "r">>],
       [cmd |-> <<"/", "t", "e", "s", "t">>],
       [cmd |-> <<"/", "s", "e", "c", "u", "r", "i", "t", "y">>],
       [cmd |-> <<"/", "e", "x", "p", "l", "a", "i", "n">>],
       [cmd |-> <<"/", "d", "i", "a", "g", "r", "a", "m">>] >>

UpperCase ==
    <<"A", "B", "C", "D", "E", "F", "G", "H", "I", "J", "K", "L", "M", "N", "O",
      "P", "Q", "R", "S", "T", "U", "V", "W", "X", "Y", "Z">>
LowerCase ==
    <<"a", "b", "c", "d", "e", "f", "g", "h", "i", "j", "k", "l", "m", "n", "o",
      "p", "q", "r", "s", "t", "u", "v", "w", "x", "y", "z">>

\* the input compared as typed, without toLowerCase
ToLowerCaseLeftOut(s) == s

\* String.prototype.toLowerCase
ToLowerCase(s) ==
    [i \in DOMAIN s |->
        IF \E k \in DOMAIN UpperCase : UpperCase[k] = s[i]
        THEN LowerCase[CHOOSE k \in DOMAIN UpperCase : UpperCase[k] = s[i]]
        ELSE s[i]]

\* the whole table, without the filter
MatchingCommandsUnfiltered(val) == COMMANDS

\* COMMANDS.filter(c => c.cmd.startsWith(searchTerm))
MatchingCommands(val) ==
    SelectSeq(COMMANDS, LAMBDA c : StartsWith(c.cmd, ToLowerCase(val)))

-----------------------------------------------------------------------------
(* The pure parts of the handlers *)

\* the object createNewSession builds
NewSession(t) == ChatSession(SessId(t), NewChatTitle, <<>>, <<>>)

\* a title of 30 characters in total, the ellipsis included
TitleOfThirtyInTotal(input) == Slice(input, 0, TitleLimit - 3) \o Ellipsis

\* chatInput.slice(0, 30) + "..."
TitleOf(input) == Slice(input, 0, TitleLimit) \o Ellipsis

\* the collection cut off at the first session with the id sessionId
WithoutSessionAndLater(ss, sessionId) ==
    IF \E i \in DOMAIN ss : ss[i].id = sessionId
    THEN SubSeq(ss, 1, (CHOOSE i \in DOMAIN ss :
                          /\ ss[i].id = sessionId
                          /\ \A j \in DOMAIN ss : ss[j].id = sessionId => i <= j) - 1)
    ELSE ss

\* sessions.filter(s => s.id !== sessionId)
WithoutSession(ss, sessionId) == SelectSeq(ss, LAMBDA s : s.id # sessionId)

\* handleChat: the optimistic update, currentSessions.map(...)
WithUserMessage(currentSessions, currentSessionId, input, url, userMsg) ==
    [i \in DOMAIN currentSessions |->
        LET s == currentSessions[i] IN
        IF s.id = currentSessionId
        THEN [s EXCEPT !.title = IF Len(s.messages) = 0 THEN TitleOf(input) ELSE @,
                       !.messages = Append(@, userMsg),
                       !.repoUrl = OrElse(url, @)]
        ELSE s]

\* handleChat: updatedWithUser.map(...) of the try and of the catch branch
WithAiMessage(updatedWithUser, currentSessionId, aiMsg) ==
    [i \in DOMAIN updatedWithUser |->
        LET s == updatedWithUser[i] IN
        IF s.id = currentSessionId
        THEN [s EXCEPT !.messages = Append(@, aiMsg)]
        ELSE s]

\* handleIngest: currentSessions.map(...) after a successful ingest
WithIngested(currentSessions, currentSessionId, url, ackMsg) ==
    [i \in DOMAIN currentSessions |->
        LET s == currentSessions[i] IN
        IF s.id = currentSessionId
        THEN [s EXCEPT !.repoUrl = url, !.messages = Append(@, ackMsg)]
        ELSE s]

RECURSIVE Join(_, _)
\* Array.prototype.join
Join(items, sep) ==
    IF Len(items) = 0 THEN <<>>
    ELSE IF Len(items) = 1 THEN items[1]
    ELSE items[1] \o sep \o Join(Tail(items), sep)

\* res.data.context_used || (res.data.sources ? `Sources: ...` : undefined)
ContextOf(data) ==
    OrElse(IF "context_used" \in DOMAIN data THEN data.context_used ELSE Undefined,
           IF "sources" \in DOMAIN data
           THEN SourcesPrefix \o Join(data.sources, Comma)
           ELSE Undefined)

\* the message the continuation of handleChat appends
AiMessageOf(outcome, t) ==
    IF outcome = Rejected
    THEN Message("ai", ErrorText, Undefined, t)
    ELSE Message("ai", outcome.answer, ContextOf(outcome), t)

\* setChatLoading(false) at the end of the try block instead of in finally:
\* a rejected call leaves chatLoading as it was
ChatLoadingWithoutFinally(outcome) ==
    IF outcome = Rejected THEN chatLoading ELSE FALSE

\* the finally clause of handleChat: setChatLoading(false)
ChatLoadingAfter(outcome) == FALSE

\* the session ids captured by the pending calls
PendingIds ==
    {p.currentSessionId : p \in pendingChat}
        \cup {pendingIngest[k].currentSessionId : k \in DOMAIN pendingIngest}

\* calls whose continuation will still read Date.now()
Reserved == Cardinality(pendingChat) + Len(pendingIngest)

\* Date.now() can still be read reads times, keeping one read per pending call
ClockAllows(reads) == (now - 1) + reads + Reserved <= MaxClock

-----------------------------------------------------------------------------
(* The state after construction: the useState initial values *)

Init ==
    /\ mounted = FALSE
    /\ sessions = <<>>
    /\ activeSessionId = Null
    /\ repoUrl = <<>>
    /\ ingestStatus = "idle"
    /\ chatInput = <<>>
    /\ chatLoading = FALSE
    /\ showSuggestions = FALSE
    /\ filteredCmds = COMMANDS
    /\ localStorage \in StoredAtMount
    /\ pendingChat = {}
    /\ pendingIngest = <<>>
    /\ idleTimers = 0
    /\ now = 1
    /\ orphaned = {}
    \* no diagram is on the page
    /\ rendered = FALSE
    /\ chart = <<>>
    /\ svg = <<>>
    /\ status = "loading"
    /\ isZoomed = FALSE
    /\ zoomLevel = ZoomDefault
    /\ pendingRender = <<>>

-----------------------------------------------------------------------------
(* Session management *)

\* saveSessions without the localStorage.setItem call
saveSessionsInMemoryOnly(newSessions) ==
    /\ sessions' = newSessions
    /\ UNCHANGED localStorage

\* saveSessions(newSessions)
saveSessions(newSessions) ==
    /\ sessions' = newSessions
    /\ localStorage' = JSONstringify(newSessions)

\* loadSession(session)
loadSession(session) ==
    /\ activeSessionId' = session.id
    /\ repoUrl' = OrElse(session.repoUrl, <<>>)

\* createNewSession() with updated = [...sessions, newSession]
createNewSessionAppending(closureSessions) ==
    LET newSession == NewSession(now)
        updated == closureSessions \o <<newSession>>
    IN  /\ saveSessions(updated)
        /\ loadSession(newSession)
        /\ now' = now + 1

\* createNewSession() called in a render whose sessions state is closureSessions
createNewSession(closureSessions) ==
    LET newSession == NewSession(now)
        updated == <<newSession>> \o closureSessions
    IN  /\ saveSessions(updated)
        /\ loadSession(newSession)
        /\ now' = now + 1

\* the mount effect without recovery: JSON.parse is not guarded and no session
\* is created when there is no history
MountWithoutRecovery ==
    /\ ~mounted
    /\ mounted' = TRUE
    /\ IF localStorage.kind = "json" /\ Len(JSONparse(localStorage)) > 0
       THEN LET parsed == JSONparse(localStorage)
                latest == parsed[1]
            IN  /\ sessions' = parsed
                /\ activeSessionId' = latest.id
                /\ repoUrl' = OrElse(latest.repoUrl, <<>>)
       ELSE UNCHANGED <<sessions, activeSessionId, repoUrl>>
    /\ UNCHANGED <<localStorage, now, ingestStatus, chatInput, chatLoading,
                   showSuggestions, filteredCmds, pendingChat, pendingIngest,
                   idleTimers, orphaned>>
    /\ UNCHANGED mermaidVars

\* the effect that loads the history on mount
Mount ==
    /\ ~mounted
    /\ mounted' = TRUE
    /\ IF localStorage.kind = "json" /\ Len(JSONparse(localStorage)) > 0
       THEN LET parsed == JSONparse(localStorage)
                latest == parsed[1]
            IN  /\ sessions' = parsed
                /\ activeSessionId' = latest.id
                /\ repoUrl' = OrElse(latest.repoUrl, <<>>)
                /\ UNCHANGED <<localStorage, now>>
       ELSE \* the key is absent, JSON.parse threw, or the array is empty:
            \* createNewSession() of the first render, whose sessions is []
            createNewSession(sessions)
    /\ UNCHANGED <<ingestStatus, chatInput, chatLoading, showSuggestions,
                   filteredCmds, pendingChat, pendingIngest, idleTimers, orphaned>>
    /\ UNCHANGED mermaidVars

\* the "+ New" button
CreateNewSession ==
    /\ mounted
    /\ ClockAllows(1)
    /\ createNewSession(sessions)
    /\ UNCHANGED <<mounted, ingestStatus, chatInput, chatLoading, showSuggestions,
                   filteredCmds, pendingChat, pendingIngest, idleTimers, orphaned>>
    /\ UNCHANGED mermaidVars

\* a click on the row of sessions[i] in the sidebar
LoadSession(i) ==
    /\ mounted
    /\ i \in DOMAIN sessions
    /\ loadSession(sessions[i])
    /\ UNCHANGED <<mounted, sessions, ingestStatus, chatInput, chatLoading,
                   showSuggestions, filteredCmds, localStorage, pendingChat,
                   pendingIngest, idleTimers, now, orphaned>>
    /\ UNCHANGED mermaidVars

\* the delete button of sessions[i]; confirmed is the answer to confirm()
DeleteSession(i, confirmed) ==
    /\ mounted
    /\ i \in DOMAIN sessions
    /\ LET sessionId == sessions[i].id
           updated == WithoutSession(sessions, sessionId)
       IN  IF ~confirmed
           THEN UNCHANGED <<sessions, localStorage, activeSessionId, repoUrl,
                            now, orphaned>>
           ELSE /\ orphaned' = orphaned \cup ({sessionId} \cap PendingIds)
                /\ IF activeSessionId # sessionId
                   THEN /\ saveSessions(updated)
                        /\ UNCHANGED <<activeSessionId, repoUrl, now>>
                   ELSE IF Len(updated) > 0
                   THEN /\ saveSessions(updated)
                        /\ loadSession(updated[1])
                        /\ UNCHANGED now
                   ELSE \* saveSessions(updated) is overwritten by the
                        \* saveSessions of createNewSession(), which reads
                        \* the sessions of the render deleteSession ran in
                        /\ ClockAllows(1)
                        /\ createNewSession(sessions)
    /\ UNCHANGED <<mounted, ingestStatus, chatInput, chatLoading, showSuggestions,
                   filteredCmds, pendingChat, pendingIngest, idleTimers>>
    /\ UNCHANGED mermaidVars

\* onChange of the repo URL input
SetRepoUrl(val) ==
    /\ mounted
    /\ val # repoUrl
    /\ repoUrl' = val
    /\ UNCHANGED <<mounted, sessions, activeSessionId, ingestStatus, chatInput,
                   chatLoading, showSuggestions, filteredCmds, localStorage,
                   pendingChat, pendingIngest, idleTimers, now, orphaned>>
    /\ UNCHANGED mermaidVars

-----------------------------------------------------------------------------
(* Ingestion *)

\* the Load button: handleIngest up to its await
HandleIngest ==
    /\ mounted
    /\ ingestStatus # "loading"          \* the button is disabled while loading
    /\ repoUrl # <<>>                    \* if (!repoUrl) return
    /\ Len(pendingIngest) < MaxPendingIngest
    /\ LET needsSession == activeSessionId = Null
           newSession == ChatSession(SessId(now), RepoChatTitle, <<>>, repoUrl)
           currentSessionId ==
               IF needsSession THEN newSession.id ELSE activeSessionId
           currentSessions ==
               IF needsSession THEN <<newSession>> \o sessions ELSE sessions
       IN  /\ ClockAllows(IF needsSession THEN 2 ELSE 1)
           /\ now' = IF needsSession THEN now + 1 ELSE now
           /\ activeSessionId' = currentSessionId
           /\ pendingIngest' =
                  Append(pendingIngest,
                         [currentSessions |-> currentSessions,
                          currentSessionId |-> currentSessionId,
                          repoUrl |-> repoUrl])
    /\ ingestStatus' = "loading"
    /\ UNCHANGED <<mounted, sessions, repoUrl, chatInput, chatLoading,
                   showSuggestions, filteredCmds, localStorage, pendingChat,
                   idleTimers, orphaned>>
    /\ UNCHANGED mermaidVars

\* POST /ingest of pendingIngest[k] ends: handleIngest after its await
ResolveIngest(k, ok) ==
    /\ k \in DOMAIN pendingIngest
    /\ LET c == pendingIngest[k]
           ackMsg == Message("ai", IngestedText, Undefined, now)
           updatedSessions ==
               WithIngested(c.currentSessions, c.currentSessionId, c.repoUrl,
                            ackMsg)
       IN  /\ pendingIngest' =
                  SubSeq(pendingIngest, 1, k - 1)
                      \o SubSeq(pendingIngest, k + 1, Len(pendingIngest))
           /\ IF ok
              THEN /\ ingestStatus' = "success"
                   /\ saveSessions(updatedSessions)
                   /\ idleTimers' = idleTimers + 1
                   /\ now' = now + 1
              ELSE /\ ingestStatus' = "error"
                   /\ UNCHANGED <<sessions, localStorage, idleTimers, now>>
    /\ UNCHANGED <<mounted, activeSessionId, repoUrl, chatInput, chatLoading,
                   showSuggestions, filteredCmds, pendingChat>>
    /\ orphaned' = orphaned \cap PendingIds'
    /\ UNCHANGED mermaidVars

\* a scheduled setTimeout(() => setIngestStatus("idle"), 3000) fires
IdleTimer ==
    /\ idleTimers > 0
    /\ idleTimers' = idleTimers - 1
    /\ ingestStatus' = "idle"
    /\ UNCHANGED <<mounted, sessions, activeSessionId, repoUrl, chatInput,
                   chatLoading, showSuggestions, filteredCmds, localStorage,
                   pendingChat, pendingIngest, now, orphaned>>
    /\ UNCHANGED mermaidVars

-----------------------------------------------------------------------------
(* Chat *)

\* handleChat up to its await; via is "enter" (the Enter key in the input) or
\* "button" (the send button, disabled while chatLoading)
HandleChat(via) ==
    /\ mounted
    /\ chatInput # <<>>                  \* if (!chatInput) return
    /\ via = "button" => ~chatLoading
    /\ Cardinality(pendingChat) < MaxPendingChat
    /\ LET needsSession == activeSessionId = Null
           newSession == ChatSession(SessId(now), NewChatTitle, <<>>, repoUrl)
           currentSessionId ==
               IF needsSession THEN newSession.id ELSE activeSessionId
           currentSessions ==
               IF needsSession THEN <<newSession>> \o sessions ELSE sessions
           sentAt == IF needsSession THEN now + 1 ELSE now
           userMsg == Message("user", chatInput, Undefined, sentAt)
           updatedWithUser ==
               WithUserMessage(currentSessions, currentSessionId, chatInput,
                               repoUrl, userMsg)
       IN  /\ ClockAllows(IF needsSession THEN 3 ELSE 2)
           /\ now' = sentAt + 1
           /\ activeSessionId' = currentSessionId
           /\ saveSessions(updatedWithUser)
           /\ pendingChat' = pendingChat \cup
                  {[updatedWithUser |-> updatedWithUser,
                    currentSessionId |-> currentSessionId,
                    userMsg |-> userMsg]}
    /\ showSuggestions' = FALSE
    /\ chatInput' = <<>>
    /\ chatLoading' = TRUE
    /\ UNCHANGED <<mounted, repoUrl, ingestStatus, filteredCmds, pendingIngest,
                   idleTimers, orphaned>>
    /\ UNCHANGED mermaidVars

\* POST /ask-codebase of the call p ends with outcome: handleChat after its await
ResolveChat(p, outcome) ==
    /\ p \in pendingChat
    /\ LET aiMsg == AiMessageOf(outcome, now)
           finalSessions ==
               WithAiMessage(p.updatedWithUser, p.currentSessionId, aiMsg)
       IN  /\ saveSessions(finalSessions)
           /\ now' = now + 1
    /\ chatLoading' = ChatLoadingAfter(outcome)
    /\ pendingChat' = pendingChat \ {p}
    /\ UNCHANGED <<mounted, activeSessionId, repoUrl, ingestStatus, chatInput,
                   showSuggestions, filteredCmds, pendingIngest, idleTimers>>
    /\ orphaned' = orphaned \cap PendingIds'
    /\ UNCHANGED mermaidVars

-----------------------------------------------------------------------------
(* The command palette *)

\* onChange of the chat input
HandleInputChange(val) ==
    /\ mounted
    /\ val # chatInput
    /\ chatInput' = val
    /\ IF StartsWith(val, <<"/">>)
       THEN /\ filteredCmds' = MatchingCommands(val)
            /\ showSuggestions' = (Len(MatchingCommands(val)) > 0)
       ELSE /\ showSuggestions' = FALSE
            /\ UNCHANGED filteredCmds
    /\ UNCHANGED <<mounted, sessions, activeSessionId, repoUrl, ingestStatus,
                   chatLoading, localStorage, pendingChat, pendingIngest,
                   idleTimers, now, orphaned>>
    /\ UNCHANGED mermaidVars

\* selectCommand without the space after the command
SelectCommandWithoutSpace(k) ==
    /\ mounted
    /\ k \in DOMAIN COMMANDS
    /\ chatInput' = COMMANDS[k].cmd
    /\ showSuggestions' = FALSE
    /\ UNCHANGED <<mounted, sessions, activeSessionId, repoUrl, ingestStatus,
                   chatLoading, filteredCmds, localStorage, pendingChat,
                   pendingIngest, idleTimers, now, orphaned>>
    /\ UNCHANGED mermaidVars

\* a click on a suggestion or on a command pill
SelectCommand(k) ==
    /\ mounted
    /\ k \in DOMAIN COMMANDS
    /\ chatInput' = COMMANDS[k].cmd \o <<" ">>
    /\ showSuggestions' = FALSE
    /\ UNCHANGED <<mounted, sessions, activeSessionId, repoUrl, ingestStatus,
                   chatLoading, filteredCmds, localStorage, pendingChat,
                   pendingIngest, idleTimers, now, orphaned>>
    /\ UNCHANGED mermaidVars

\* Escape in the chat input, or a click on the transcript
CloseSuggestions ==
    /\ mounted
    /\ showSuggestions' = FALSE
    /\ UNCHANGED <<mounted, sessions, activeSessionId, repoUrl, ingestStatus,
                   chatInput, chatLoading, filteredCmds, localStorage,
                   pendingChat, pendingIngest, idleTimers, now, orphaned>>
    /\ UNCHANGED mermaidVars

-----------------------------------------------------------------------------
(* Component Mermaid: the cleanup of the diagram source *)

\* white space of \s and of String.prototype.trim
WhiteSpace == {" ", "\t", "\n", "\r"}
\* the characters . of a regular expression does not match
LineTerminators == {"\n", "\r"}

RECURSIVE ReplaceAll(_, _, _)
\* String.prototype.replace(/pattern/g, replacement) for a literal pattern:
\* the matches are taken from left to right and do not overlap
ReplaceAll(s, pattern, replacement) ==
    IF Len(s) < Len(pattern) THEN s
    ELSE IF StartsWith(s, pattern)
    THEN replacement
             \o ReplaceAll(SubSeq(s, Len(pattern) + 1, Len(s)), pattern,
                           replacement)
    ELSE <<s[1]>> \o ReplaceAll(Tail(s), pattern, replacement)

RECURSIVE TrimStart(_)
TrimStart(s) ==
    IF Len(s) > 0 /\ s[1] \in WhiteSpace THEN TrimStart(Tail(s)) ELSE s

RECURSIVE TrimEnd(_)
TrimEnd(s) ==
    IF Len(s) > 0 /\ s[Len(s)] \in WhiteSpace
    THEN TrimEnd(SubSeq(s, 1, Len(s) - 1))
    ELSE s

\* String.prototype.trim
Trim(s) == TrimEnd(TrimStart(s))

EntityGt == <<"&", "g", "t", ";">>
EntityLt == <<"&", "l", "t", ";">>
EntityQuot == <<"&", "q", "u", "o", "t", ";">>
\* three backticks; "U+0060" stands for the one character U+0060
Fence == <<"U+0060", "U+0060", "U+0060">>
MermaidKeyword == <<"m", "e", "r", "m", "a", "i", "d">>
FenceMermaid == Fence \o MermaidKeyword
GraphTD == <<"g", "r", "a", "p", "h", " ", "T", "D">>
FlowchartTD == <<"f", "l", "o", "w", "c", "h", "a", "r", "t", " ", "T", "D">>
ArrowOpen == <<" ", "-", "-", " ">>
ArrowClose == <<" ", "-", "-", ">">>
DoubleQuote == <<"\"">>
SingleQuote == <<"'">>

\* .replace(/^mermaid\s*/i, "")
StripMermaidKeyword(s) ==
    IF StartsWith(ToLowerCase(s), MermaidKeyword)
    THEN TrimStart(SubSeq(s, Len(MermaidKeyword) + 1, Len(s)))
    ELSE s

RECURSIVE LabelLength(_, _)
\* the (.*?) of / -- (.*?) -->/ on the text s that follows " -- ": the least
\* number n >= from of characters, none a line terminator, after which s
\* continues with " -->"; -1 if there is none
LabelLength(s, from) ==
    IF StartsWith(SubSeq(s, from + 1, Len(s)), ArrowClose) THEN from
    ELSE IF from >= Len(s) \/ s[from + 1] \in LineTerminators THEN -1
    ELSE LabelLength(s, from + 1)

RECURSIVE FixEdgeLabels(_)
\* cleanChart.replace(/ -- (.*?) -->/g, (match, label) => ...)
FixEdgeLabels(s) ==
    IF Len(s) = 0 THEN s
    ELSE LET rest == SubSeq(s, Len(ArrowOpen) + 1, Len(s))
             n == LabelLength(rest, 0)
         IN  IF StartsWith(s, ArrowOpen) /\ n >= 0
             THEN LET label == SubSeq(rest, 1, n)
                      safeLabel == ReplaceAll(label, DoubleQuote, SingleQuote)
                  IN  ArrowOpen \o DoubleQuote \o safeLabel \o DoubleQuote
                          \o ArrowClose
                          \o FixEdgeLabels(SubSeq(rest, n + Len(ArrowClose) + 1,
                                                  Len(rest)))
             ELSE <<s[1]>> \o FixEdgeLabels(Tail(s))

\* the chain without its replace of &quot;
UnfencedWithoutQuot(s) ==
    LET a == ReplaceAll(s, EntityGt, <<">">>)
        b == ReplaceAll(a, EntityLt, <<"<">>)
        d == ReplaceAll(b, FenceMermaid, <<>>)
        e == ReplaceAll(d, Fence, <<>>)
        f == StripMermaidKeyword(e)
        g == ReplaceAll(f, GraphTD, FlowchartTD)
        h == ReplaceAll(g, <<";">>, <<>>)
    IN  Trim(h)

\* the chain of replace calls and trim that builds cleanChart
Unfenced(s) ==
    LET a == ReplaceAll(s, EntityGt, <<">">>)
        b == ReplaceAll(a, EntityLt, <<"<">>)
        c == ReplaceAll(b, EntityQuot, DoubleQuote)
        d == ReplaceAll(c, FenceMermaid, <<>>)
        e == ReplaceAll(d, Fence, <<>>)
        f == StripMermaidKeyword(e)
        g == ReplaceAll(f, GraphTD, FlowchartTD)
        h == ReplaceAll(g, <<";">>, <<>>)
    IN  Trim(h)

\* the cleanup logic of renderChart: the text handed to mermaid.render
Sanitize(s) == FixEdgeLabels(Unfenced(s))

\* a diagram that needs no cleanup
ChartPlain ==
    <<"A", "-", "-", ">", "B">>
\* HTML-escaped text
ChartEscaped ==
    <<"&", "l", "t", ";", "A", "&", "g", "t", ";">>
\* an edge label with double quotes
ChartQuotedLabel ==
    <<"A", " ", "-", "-", " ", "i", "t", "'", "s", " ", "\"", "o", "k", "\"",
      " ", "-", "-", ">", " ", "B">>
\* a fenced block in the legacy keyword, with semicolons
ChartFenced ==
    <<"U+0060", "U+0060", "U+0060", "m", "e", "r", "m", "a", "i", "d", "\n", "g", "r", "a",
      "p", "h", " ", "T", "D", ";", "\n", "A", "-", "-", ">", "B", ";", "\n",
      "U+0060", "U+0060", "U+0060">>
\* a leading bare keyword
ChartKeyword ==
    <<"M", "e", "r", "m", "a", "i", "d", " ", "g", "r", "a", "p", "h", " ",
      "T", "D">>
\* an entity that exists once the fence inside it is removed
ChartSplitEntity ==
    <<"&", "g", "U+0060", "U+0060", "U+0060", "t", ";">>
\* a fence that exists once the semicolon is removed
ChartSplitFence ==
    <<"U+0060", ";", "U+0060", "U+0060", "A">>
\* two labelled edges on two lines
ChartTwoLabels ==
    <<"A", " ", "-", "-", " ", "x", " ", "-", "-", ">", " ", "B", "\n", "B",
      " ", "-", "-", " ", "y", " ", "-", "-", ">", " ", "C">>
\* white space only
ChartBlank ==
    <<" ", " ", "\n">>
\* a labelled arrow with which the text begins
ChartArrowFirst ==
    <<"-", "-", " ", "i", "t", "'", "s", " ", "\"", "o", "k", "\"", " ", "-", "-",
      ">", " ", "B">>
\* an edge label whose quotes are HTML-escaped
ChartQuotEntity ==
    <<"A", " ", "-", "-", " ", "&", "q", "u", "o", "t", ";", "x", "&", "q", "u",
      "o", "t", ";", " ", "-", "-", ">", " ", "B">>
\* the values of the prop chart
Charts ==
    {ChartPlain, ChartEscaped, ChartQuotedLabel, ChartFenced, ChartKeyword,
     ChartSplitEntity, ChartSplitFence, ChartTwoLabels, ChartBlank,
     ChartArrowFirst, ChartQuotEntity, <<>>}

-----------------------------------------------------------------------------
(* Component Mermaid: the render effect *)

\* the markup mermaid.render returns for the text it was given
Svg(cleanChart) == <<"<svg>">> \o cleanChart \o <<"</svg>">>

\* !chart || chart.trim().length === 0
Blank(c) == Len(c) = 0 \/ Len(Trim(c)) = 0

\* what the component returns for its state
View ==
    IF status = "empty" THEN [kind |-> "null", text |-> <<>>, overlay |-> FALSE]
    ELSE IF status = "error"
    THEN [kind |-> "error", text |-> chart, overlay |-> FALSE]
    ELSE IF status = "loading"
    THEN [kind |-> "loading", text |-> <<>>, overlay |-> FALSE]
    ELSE [kind |-> "diagram", text |-> svg, overlay |-> isZoomed]

\* the effect with a test for the empty string only
renderEffectWithoutTrim(c) ==
    IF Len(c) = 0
    THEN /\ status' = "empty"
         /\ UNCHANGED pendingRender
    ELSE /\ status' = "loading"
         /\ pendingRender' =
                Append(pendingRender, [chart |-> c, cleanChart |-> Sanitize(c)])

\* the body of the effect on [chart], run for the chart text c
renderEffect(c) ==
    IF Blank(c)
    THEN /\ status' = "empty"
         /\ UNCHANGED pendingRender
    ELSE /\ status' = "loading"
         /\ pendingRender' =
                Append(pendingRender, [chart |-> c, cleanChart |-> Sanitize(c)])

\* the instance is mounted: the effect runs for the first chart text
MermaidMount ==
    /\ ~rendered
    /\ rendered' = TRUE
    /\ renderEffect(chart)
    /\ UNCHANGED <<chart, svg, isZoomed, zoomLevel>>
    /\ UNCHANGED homeVars

\* the parent renders the instance with another chart text: the effect runs
\* again
ChartChange(c) ==
    /\ rendered
    /\ c # chart
    /\ Len(pendingRender) < MaxPendingRender
    /\ chart' = c
    /\ renderEffect(c)
    /\ UNCHANGED <<rendered, svg, isZoomed, zoomLevel>>
    /\ UNCHANGED homeVars

\* mermaid.render of pendingRender[k] ends: renderChart after its await
ResolveRender(k, ok) ==
    /\ k \in DOMAIN pendingRender
    /\ pendingRender' =
           SubSeq(pendingRender, 1, k - 1)
               \o SubSeq(pendingRender, k + 1, Len(pendingRender))
    /\ IF ok
       THEN /\ svg' = Svg(pendingRender[k].cleanChart)
            /\ status' = "success"
       ELSE /\ status' = "error"
            /\ UNCHANGED svg
    /\ UNCHANGED <<rendered, chart, isZoomed, zoomLevel>>
    /\ UNCHANGED homeVars

-----------------------------------------------------------------------------
(* Component Mermaid: the zoom overlay *)

\* the effect on [isZoomed] with zoomLevel left as it is
ZoomAfterEffectLeftOut(zoomed, z) == z

\* the effect on [isZoomed]: if (!isZoomed) setZoomLevel(1)
ZoomAfterEffect(zoomed, z) == IF ~zoomed THEN ZoomDefault ELSE z

\* setIsZoomed(v) in an event handler, with the effect on [isZoomed], which
\* runs after the render in which isZoomed has changed
setIsZoomed(v) ==
    /\ isZoomed' = v
    /\ zoomLevel' = IF v # isZoomed THEN ZoomAfterEffect(v, zoomLevel)
                    ELSE zoomLevel

\* handleZoomIn without its Math.min
ZoomedInUncapped(prev) == prev + ZoomStep

\* the updater of handleZoomIn
ZoomedIn(prev) == Min(prev + ZoomStep, ZoomMax)

\* the updater of handleZoomOut
ZoomedOut(prev) == Max(prev - ZoomStep, ZoomMin)

\* a click on the thumbnail of the diagram
OpenZoom ==
    /\ status = "success"
    /\ ~isZoomed
    /\ setIsZoomed(TRUE)
    /\ UNCHANGED <<rendered, chart, svg, status, pendingRender>>
    /\ UNCHANGED homeVars

\* the + button of the control bar, or the wheel turned up with ctrl held
\* over the diagram
ZoomIn(via) ==
    /\ View.overlay
    /\ zoomLevel' = ZoomedIn(zoomLevel)
    /\ UNCHANGED <<rendered, chart, svg, status, isZoomed, pendingRender>>
    /\ UNCHANGED homeVars

\* the - button of the control bar, or the wheel turned down with ctrl held
\* over the diagram
ZoomOut(via) ==
    /\ View.overlay
    /\ zoomLevel' = ZoomedOut(zoomLevel)
    /\ UNCHANGED <<rendered, chart, svg, status, isZoomed, pendingRender>>
    /\ UNCHANGED homeVars

\* the Reset button: handleResetZoom
ResetZoom ==
    /\ View.overlay
    /\ zoomLevel' = ZoomDefault
    /\ UNCHANGED <<rendered, chart, svg, status, isZoomed, pendingRender>>
    /\ UNCHANGED homeVars

\* the control bar with a click that goes on to the backdrop
ClickControlBarPropagating ==
    /\ View.overlay
    /\ setIsZoomed(FALSE)
    /\ UNCHANGED <<rendered, chart, svg, status, pendingRender>>
    /\ UNCHANGED homeVars

\* a click on the control bar beside its buttons: stopPropagation
ClickControlBar ==
    /\ View.overlay
    /\ UNCHANGED mermaidVars
    /\ UNCHANGED homeVars

\* a click on the diagram of the overlay: stopPropagation
ClickDiagram ==
    /\ View.overlay
    /\ UNCHANGED mermaidVars
    /\ UNCHANGED homeVars

\* the Close button, a click on the backdrop, or a click on the wrapper
\* around the diagram
CloseZoom(via) ==
    /\ View.overlay
    /\ setIsZoomed(FALSE)
    /\ UNCHANGED <<rendered, chart, svg, status, pendingRender>>
    /\ UNCHANGED homeVars

\* the Escape key, heard on the window from mount on
EscapeKey ==
    /\ rendered
    /\ setIsZoomed(FALSE)
    /\ UNCHANGED <<rendered, chart, svg, status, pendingRender>>
    /\ UNCHANGED homeVars

-----------------------------------------------------------------------------
(* The page of app/page.tsx: its own Home, with the same state *)

\* Date.now().toString(): the id of this page has no prefix
PageSessId(t) == <<"", t>>

\* loadSession(session) of this page
pageLoadSession(session) ==
    /\ activeSessionId' = session.id
    /\ repoUrl' = session.repoUrl

\* the effect that loads the history on mount; JSON.parse is not guarded: on
\* a string it rejects the effect throws and the page is never usable
PageMount ==
    /\ ~mounted
    /\ localStorage.kind # "invalid"
    /\ mounted' = TRUE
    /\ IF localStorage.kind = "json"
       THEN LET parsed == JSONparse(localStorage)
            IN  /\ sessions' = parsed
                /\ IF Len(parsed) > 0
                   THEN pageLoadSession(parsed[1])
                   ELSE UNCHANGED <<activeSessionId, repoUrl>>
       ELSE UNCHANGED <<sessions, activeSessionId, repoUrl>>
    /\ UNCHANGED <<localStorage, now, ingestStatus, chatInput, chatLoading,
                   showSuggestions, filteredCmds, pendingChat, pendingIngest,
                   idleTimers, orphaned>>
    /\ UNCHANGED mermaidVars

\* createNewSession() of this page: the "+ New" button
PageCreateNewSession ==
    /\ mounted
    /\ ClockAllows(1)
    /\ LET newSession == ChatSession(PageSessId(now), NewChatTitle, <<>>, <<>>)
           updated == <<newSession>> \o sessions
       IN  /\ saveSessions(updated)
           /\ pageLoadSession(newSession)
           /\ now' = now + 1
    /\ UNCHANGED <<mounted, ingestStatus, chatInput, chatLoading, showSuggestions,
                   filteredCmds, pendingChat, pendingIngest, idleTimers, orphaned>>
    /\ UNCHANGED mermaidVars

\* onChange of the chat input: setChatInput(e.target.value)
PageSetChatInput(val) ==
    /\ mounted
    /\ val # chatInput
    /\ chatInput' = val
    /\ UNCHANGED <<mounted, sessions, activeSessionId, repoUrl, ingestStatus,
                   chatLoading, showSuggestions, filteredCmds, localStorage,
                   pendingChat, pendingIngest, idleTimers, now, orphaned>>
    /\ UNCHANGED mermaidVars

\* handleChat of this page up to its await; via is "enter" (the Enter key in
\* the input) or "button" (the send button, disabled while chatLoading)
PageHandleChat(via) ==
    /\ mounted
    /\ chatInput # <<>>                  \* if (!chatInput) return
    /\ via = "button" => ~chatLoading
    /\ Cardinality(pendingChat) < MaxPendingChat
    /\ LET needsSession == activeSessionId = Null
           newSession == ChatSession(PageSessId(now), NewChatTitle, <<>>, repoUrl)
           currentSessionId ==
               IF needsSession THEN newSession.id ELSE activeSessionId
           currentSessions ==
               IF needsSession THEN <<newSession>> \o sessions ELSE sessions
           sentAt == IF needsSession THEN now + 1 ELSE now
           userMsg == Message("user", chatInput, Undefined, sentAt)
           updatedWithUser ==
               WithUserMessage(currentSessions, currentSessionId, chatInput,
                               repoUrl, userMsg)
       IN  /\ ClockAllows(IF needsSession THEN 3 ELSE 2)
           /\ now' = sentAt + 1
           /\ activeSessionId' = currentSessionId
           /\ saveSessions(updatedWithUser)
           /\ pendingChat' = pendingChat \cup
                  {[updatedWithUser |-> updatedWithUser,
                    currentSessionId |-> currentSessionId,
                    userMsg |-> userMsg]}
    /\ chatInput' = <<>>
    /\ chatLoading' = TRUE
    /\ UNCHANGED <<mounted, repoUrl, ingestStatus, showSuggestions, filteredCmds,
                   pendingIngest, idleTimers, orphaned>>
    /\ UNCHANGED mermaidVars

\* the message the try block of this page builds: context is
\* res.data.context_used
PageAiMessageOf(data, t) ==
    Message("ai", data.answer,
            IF "context_used" \in DOMAIN data THEN data.context_used
            ELSE Undefined, t)

\* POST /ask-codebase of the call p ends with outcome: handleChat of this page
\* after its await; its catch block logs the error and does nothing else
PageResolveChat(p, outcome) ==
    /\ p \in pendingChat
    /\ IF outcome = Rejected
       THEN UNCHANGED <<sessions, localStorage, now>>
       ELSE LET aiMsg == PageAiMessageOf(outcome, now)
                finalSessions ==
                    WithAiMessage(p.updatedWithUser, p.currentSessionId, aiMsg)
            IN  /\ saveSessions(finalSessions)
                /\ now' = now + 1
    /\ chatLoading' = FALSE
    /\ pendingChat' = pendingChat \ {p}
    /\ UNCHANGED <<mounted, activeSessionId, repoUrl, ingestStatus, chatInput,
                   showSuggestions, filteredCmds, pendingIngest, idleTimers,
                   orphaned>>
    /\ UNCHANGED mermaidVars

-----------------------------------------------------------------------------
(* The specification *)

Outcomes == Responses \cup {Rejected}

Next ==
    \/ Mount
    \/ \E i \in DOMAIN sessions, confirmed \in BOOLEAN : DeleteSession(i, confirmed)
    \/ CreateNewSession
    \/ \E i \in DOMAIN sessions : LoadSession(i)
    \/ \E val \in RepoUrls : SetRepoUrl(val)
    \/ HandleIngest
    \/ \E k \in DOMAIN pendingIngest, ok \in BOOLEAN : ResolveIngest(k, ok)
    \/ IdleTimer
    \/ \E via \in {"enter", "button"} : HandleChat(via)
    \/ \E p \in pendingChat, outcome \in Outcomes : ResolveChat(p, outcome)
    \/ \E val \in ChatInputs : HandleInputChange(val)

Spec == Init /\ [][Next]_vars

\* the turn whose user message was stamped t is still awaiting its response
TurnPending(t) == \E p \in pendingChat : p.userMsg.timestamp = t

\* the steps of the chat round trip and of session management; ingestion,
\* which neither reads nor writes chatLoading or pendingChat, is left out
ChatNext ==
    \/ Mount
    \/ \E i \in DOMAIN sessions, confirmed \in BOOLEAN : DeleteSession(i, confirmed)
    \/ CreateNewSession
    \/ \E i \in DOMAIN sessions : LoadSession(i)
    \/ \E via \in {"enter", "button"} : HandleChat(via)
    \/ \E p \in pendingChat, outcome \in Outcomes : ResolveChat(p, outcome)
    \/ \E val \in ChatInputs : HandleInputChange(val)

ChatSpec == Init /\ [][ChatNext]_vars

\* every ask-codebase call eventually resolves or rejects
FairSpec ==
    /\ ChatSpec
    /\ \A t \in 1..MaxClock :
          WF_vars(\E p \in pendingChat, outcome \in Outcomes :
                     p.userMsg.timestamp = t /\ ResolveChat(p, outcome))

\* the chat round trip alone, with first messages of several lengths
TitleNext ==
    \/ Mount
    \/ \E val \in TitleInputs : HandleInputChange(val)
    \/ \E via \in {"enter", "button"} : HandleChat(via)
    \/ \E p \in pendingChat, outcome \in Outcomes : ResolveChat(p, outcome)

TitleSpec == Init /\ [][TitleNext]_vars

\* the command palette: typing, selecting a command, closing the panel and
\* sending what was typed; the resolution of a call, which touches none of
\* chatInput, showSuggestions and filteredCmds, is left out
PaletteNext ==
    \/ Mount
    \/ \E val \in PaletteInputs : HandleInputChange(val)
    \/ \E k \in DOMAIN COMMANDS : SelectCommand(k)
    \/ CloseSuggestions
    \/ \E via \in {"enter", "button"} : HandleChat(via)

PaletteSpec == Init /\ [][PaletteNext]_vars

\* one Mermaid instance on a page that is otherwise left alone
MermaidInit ==
    /\ mounted = FALSE
    /\ sessions = <<>>
    /\ activeSessionId = Null
    /\ repoUrl = <<>>
    /\ ingestStatus = "idle"
    /\ chatInput = <<>>
    /\ chatLoading = FALSE
    /\ showSuggestions = FALSE
    /\ filteredCmds = COMMANDS
    /\ localStorage = Absent
    /\ pendingChat = {}
    /\ pendingIngest = <<>>
    /\ idleTimers = 0
    /\ now = 1
    /\ orphaned = {}
    /\ rendered = FALSE
    /\ chart \in Charts
    /\ svg = <<>>
    /\ status = "loading"
    /\ isZoomed = FALSE
    /\ zoomLevel = ZoomDefault
    /\ pendingRender = <<>>

MermaidNext ==
    \/ MermaidMount
    \/ \E c \in Charts : ChartChange(c)
    \/ \E k \in DOMAIN pendingRender, ok \in BOOLEAN : ResolveRender(k, ok)

MermaidSpec == MermaidInit /\ [][MermaidNext]_vars

\* the chart texts of the instance whose overlay is followed
ZoomCharts == {ChartPlain, ChartEscaped, ChartBlank}

ZoomInit ==
    /\ MermaidInit
    /\ chart \in ZoomCharts

\* the Mermaid instance with the events of its overlay
ZoomNext ==
    \/ MermaidMount
    \/ \E c \in ZoomCharts : ChartChange(c)
    \/ \E k \in DOMAIN pendingRender, ok \in BOOLEAN : ResolveRender(k, ok)
    \/ OpenZoom
    \/ \E via \in {"button", "wheel"} : ZoomIn(via)
    \/ \E via \in {"button", "wheel"} : ZoomOut(via)
    \/ ResetZoom
    \/ ClickControlBar
    \/ ClickDiagram
    \/ \E via \in {"close", "backdrop", "wrapper"} : CloseZoom(via)
    \/ EscapeKey

ZoomSpec == ZoomInit /\ [][ZoomNext]_vars

\* the page of app/page.tsx: mount, new session and the chat round trip
PageNext ==
    \/ PageMount
    \/ PageCreateNewSession
    \/ \E val \in ChatInputs : PageSetChatInput(val)
    \/ \E via \in {"enter", "button"} : PageHandleChat(via)
    \/ \E p \in pendingChat, outcome \in Outcomes : PageResolveChat(p, outcome)

PageSpec == Init /\ [][PageNext]_vars

-----------------------------------------------------------------------------
(* Vocabulary of the properties *)

\* the title of the session id of the collection ss
TitleIn(ss, id) ==
    ss[CHOOSE i \in DOMAIN ss :
           /\ ss[i].id = id
           /\ \A j \in DOMAIN ss : ss[j].id = id => i <= j].title

IsPrefix(a, b) == Len(a) <= Len(b) /\ SubSeq(b, 1, Len(a)) = a

Range(f) == {f[i] : i \in DOMAIN f}

\* the session ids persisted under chat_history
PersistedIds ==
    IF localStorage.kind = "json" THEN Ids(JSONparse(localStorage)) ELSE {}

\* the messages persisted under chat_history for the session id
PersistedMessagesOf(id) ==
    IF localStorage.kind = "json" THEN MessagesOf(JSONparse(localStorage), id)
    ELSE <<>>

\* the repoUrl of the session id of the collection ss
RepoUrlIn(ss, id) ==
    ss[CHOOSE i \in DOMAIN ss :
           /\ ss[i].id = id
           /\ \A j \in DOMAIN ss : ss[j].id = id => i <= j].repoUrl

-----------------------------------------------------------------------------
(* C1 .. C10 *)

\* C1: when the ask-codebase call of a turn started in session X resolves (with
\* success or with failure) while another session Y of the collection is the
\* active one, the AI message of the turn is appended to the messages of X and
\* the messages of Y are unchanged.
C1_StaleResponseFiledUnderX ==
    [][\A p \in pendingChat, outcome \in Outcomes :
          ( /\ ResolveChat(p, outcome)
            /\ activeSessionId # p.currentSessionId
            /\ activeSessionId \in Ids(sessions)
            /\ p.currentSessionId \in Ids(sessions) )
          => /\ MessagesOf(sessions', p.currentSessionId)
                    = Append(MessagesOf(sessions, p.currentSessionId),
                             AiMessageOf(outcome, now))
             /\ MessagesOf(sessions', activeSessionId)
                    = MessagesOf(sessions, activeSessionId)]_vars

\* C2: when the session X of a pending ask-codebase or ingest call was removed
\* by deleteSession and is not in the collection, the resolution of the call
\* leaves X out of the in-memory and of the persisted collection.
C2_ResolutionAfterDeleteIsNoOp ==
    [][ /\ \A p \in pendingChat, outcome \in Outcomes :
              ( /\ ResolveChat(p, outcome)
                /\ p.currentSessionId \in orphaned
                /\ p.currentSessionId \notin Ids(sessions) )
              => /\ p.currentSessionId \notin Ids(sessions')
                 /\ p.currentSessionId \notin PersistedIds'
        /\ \A k \in DOMAIN pendingIngest, ok \in BOOLEAN :
              ( /\ ResolveIngest(k, ok)
                /\ pendingIngest[k].currentSessionId \in orphaned
                /\ pendingIngest[k].currentSessionId \notin Ids(sessions) )
              => /\ pendingIngest[k].currentSessionId \notin Ids(sessions')
                 /\ pendingIngest[k].currentSessionId \notin PersistedIds'
      ]_vars

\* what a save derived from the most recent collection keeps: every other
\* session as it is, and the messages already committed to the session sid
KeepsCommitted(sid) ==
    /\ \A i \in DOMAIN sessions :
          sessions[i].id # sid => sessions[i] \in Range(sessions')
    /\ IsPrefix(MessagesOf(sessions, sid), MessagesOf(sessions', sid))

\* C3: the save of the continuation of handleChat or handleIngest keeps what
\* was committed since the call started: every session of the collection
\* other than the captured one is still in the collection unchanged, and the
\* messages committed to the captured session are still there.
C3_ContinuationSaveKeepsConcurrentUpdates ==
    [][ /\ \A p \in pendingChat, outcome \in Outcomes :
              ResolveChat(p, outcome) => KeepsCommitted(p.currentSessionId)
        /\ \A k \in DOMAIN pendingIngest :
              ResolveIngest(k, TRUE)
                  => KeepsCommitted(pendingIngest[k].currentSessionId)
      ]_vars

\* C4: the transcript is append-only: over every step, the messages of a
\* session that is in the collection before and after the step are a prefix
\* of its messages after the step.
C4_TranscriptAppendOnly ==
    [][\A i \in DOMAIN sessions :
          sessions[i].id \in Ids(sessions')
              => IsPrefix(sessions[i].messages,
                          MessagesOf(sessions', sessions[i].id))]_vars

\* C5: once the mount-time load has run, activeSessionId is not null and is
\* the id of exactly one session of the collection.
C5_ExactlyOneActiveSession ==
    mounted =>
        /\ activeSessionId # Null
        /\ Cardinality({i \in DOMAIN sessions :
                            sessions[i].id = activeSessionId}) = 1

\* C6: a confirmed deleteSession of the active session leaves no session with
\* that id in the in-memory or persisted collection; if other sessions remain
\* they are the collection and its head is active; if none remains the
\* collection is exactly one fresh session without messages, which is active.
C6_DeleteActiveSession ==
    [][\A i \in DOMAIN sessions :
          (DeleteSession(i, TRUE) /\ sessions[i].id = activeSessionId)
          => LET rest == WithoutSession(sessions, sessions[i].id) IN
             /\ sessions[i].id \notin Ids(sessions')
             /\ sessions[i].id \notin PersistedIds'
             /\ Len(rest) > 0 =>
                    /\ sessions' = rest
                    /\ activeSessionId' = rest[1].id
             /\ Len(rest) = 0 =>
                    /\ Len(sessions') = 1
                    /\ sessions'[1].messages = <<>>
                    /\ activeSessionId' = sessions'[1].id]_vars

\* C7: when the ask-codebase call of a turn fails, the messages of the captured
\* session become the messages the turn saved (those before the turn and the
\* user message) followed by one AI message with the fixed error text, the
\* result is persisted, and no other session changes.
C7_FailureAppendsErrorMessage ==
    [][\A p \in pendingChat :
          ResolveChat(p, Rejected)
          => LET sid == p.currentSessionId
                 saved == MessagesOf(p.updatedWithUser, sid)
             IN  /\ Len(saved) > 0
                 /\ saved[Len(saved)] = p.userMsg
                 /\ MessagesOf(sessions', sid)
                        = Append(saved, Message("ai", ErrorText, Undefined, now))
                 /\ localStorage' = JSONstringify(sessions')
                 /\ \A i \in DOMAIN sessions :
                       sessions[i].id # sid => sessions[i] \in Range(sessions')
                 /\ \A j \in DOMAIN sessions' :
                       sessions'[j].id # sid => sessions'[j] \in Range(sessions)
      ]_vars

\* C8: when handleChat issues the ask-codebase request, the persisted
\* collection holds the user message, with the text that was in the input, as
\* the last message of the captured session and chatInput is empty; the
\* resolution of the call, successful or not, leaves chatInput as it is.
C8_UserMessagePersistedBeforeRequest ==
    [][ /\ \A p \in pendingChat' \ pendingChat :
              LET stored == PersistedMessagesOf(p.currentSessionId)' IN
              /\ p.userMsg.role = "user"
              /\ p.userMsg.content = chatInput
              /\ Len(stored) > 0
              /\ stored[Len(stored)] = p.userMsg
              /\ chatInput' = <<>>
        /\ (pendingChat \ pendingChat' # {}) => chatInput' = chatInput
      ]_vars

\* C9: every turn that started a backend call eventually completes, and when
\* it has completed chatLoading is false, whether the call resolved or
\* rejected.
C9_TurnCompletesWithLoadingCleared ==
    \A t \in 1..MaxClock :
        TurnPending(t) ~> (~TurnPending(t) /\ ~chatLoading)

\* C9 witness: a turn that failed and a turn that succeeded have both
\* completed and chatLoading is false
C9_Witness ==
    /\ pendingChat = {}
    /\ ~chatLoading
    /\ \E i \in DOMAIN sessions : \E k \in DOMAIN sessions[i].messages :
          sessions[i].messages[k].content = ErrorText
    /\ \E i \in DOMAIN sessions : \E k \in DOMAIN sessions[i].messages :
          /\ sessions[i].messages[k].timestamp > 0
          /\ sessions[i].messages[k].content = AnswerText

\* C10: when chat_history is absent, is invalid JSON or is an empty array, the
\* mount-time load ends with exactly one fresh session (title "New Chat", no
\* messages, empty repoUrl) that is active and persisted; when it is a
\* non-empty array, the collection is that array, its head is active and
\* repoUrl is the head's repoUrl.
C10_MountLoad ==
    [][(~mounted /\ mounted') =>
          IF localStorage.kind = "json" /\ Len(localStorage.value) > 0
          THEN /\ sessions' = JSONparse(localStorage)
               /\ activeSessionId' = sessions'[1].id
               /\ repoUrl' = sessions'[1].repoUrl
          ELSE /\ Len(sessions') = 1
               /\ sessions'[1].title = NewChatTitle
               /\ sessions'[1].messages = <<>>
               /\ sessions'[1].repoUrl = <<>>
               /\ activeSessionId' = sessions'[1].id
               /\ activeSessionId' # Null
               /\ localStorage' = JSONstringify(sessions')
               /\ JSONparse(localStorage') = sessions'
      ]_vars

\* C10 witness: the page was opened on a chat_history that JSON.parse rejects
\* and now holds one fresh active session that is persisted
C10_Witness ==
    /\ mounted
    /\ sessions = <<ChatSession(SessId(1), NewChatTitle, <<>>, <<>>)>>
    /\ activeSessionId = SessId(1)
    /\ localStorage = JSONstringify(sessions)
    /\ now = 2

-----------------------------------------------------------------------------
(* C11 .. C20 *)

\* C11: once the mount-time load has run, the value persisted under
\* chat_history is the serialization of the in-memory collection, in every
\* reachable state.
C11_PersistedIsSerializedCollection ==
    mounted => localStorage = JSONstringify(sessions)

\* C11 witness: an ingest acknowledgment and an error message, neither with a
\* context, were saved and the persisted value is the
\* serialization of the collection
C11_Witness ==
    /\ mounted
    /\ localStorage = JSONstringify(sessions)
    /\ \E i \in DOMAIN sessions : \E k \in DOMAIN sessions[i].messages :
          sessions[i].messages[k].content = IngestedText
    /\ \E i \in DOMAIN sessions : \E k \in DOMAIN sessions[i].messages :
          sessions[i].messages[k].content = ErrorText

\* C12: session ids are unique within the in-memory collection in every
\* reachable state (every session creation reads a clock value of its own).
C12_SessionIdsUnique ==
    \A i \in DOMAIN sessions : \A j \in DOMAIN sessions :
        sessions[i].id = sessions[j].id => i = j

\* C12 witness: three sessions with three ids, one of them created on this
\* visit, after the response of a turn was saved
C12_Witness ==
    /\ Len(sessions) = 3
    /\ Cardinality(Ids(sessions)) = 3
    /\ SessId(1) \in Ids(sessions)
    /\ \E i \in DOMAIN sessions : \E k \in DOMAIN sessions[i].messages :
          /\ sessions[i].messages[k].role = "ai"
          /\ sessions[i].messages[k].timestamp > 1

\* C13: createNewSession prepends: after a creation the collection is a new
\* session (title "New Chat", no messages, empty repoUrl, an id no session
\* had) followed by the previous collection unchanged and in the same order,
\* the new session is active and the collection is persisted.
C13_CreateNewSessionPrepends ==
    [][CreateNewSession =>
          /\ Len(sessions') = Len(sessions) + 1
          /\ Tail(sessions') = sessions
          /\ Head(sessions').title = NewChatTitle
          /\ Head(sessions').messages = <<>>
          /\ Head(sessions').repoUrl = <<>>
          /\ Head(sessions').id \notin Ids(sessions)
          /\ activeSessionId' = Head(sessions').id
          /\ repoUrl' = <<>>
          /\ JSONparse(localStorage') = sessions'
      ]_vars

\* C13 witness: S1 was created at mount and S2 after it: the collection is
\* [S2, S1] and S2 is active
C13_Witness ==
    /\ Len(sessions) = 2
    /\ sessions[1].id = SessId(2)
    /\ sessions[2].id = SessId(1)
    /\ sessions[1].title = NewChatTitle
    /\ sessions[1].messages = <<>>
    /\ activeSessionId = SessId(2)

\* "Explain this function pleas...": 30 characters in all
ExplainTitleThirtyInTotal ==
    <<"E", "x", "p", "l", "a", "i", "n", " ", "t", "h", "i", "s", " ", "f", "u",
      "n", "c", "t", "i", "o", "n", " ", "p", "l", "e", "a", "s", ".", ".", ".">>

\* "Explain this function please...": the 28 characters and the marker
ExplainTitleWithEllipsis ==
    <<"E", "x", "p", "l", "a", "i", "n", " ", "t", "h", "i", "s", " ", "f", "u",
      "n", "c", "t", "i", "o", "n", " ", "p", "l", "e", "a", "s", "e", ".", ".",
      ".">>

\* C14 as stated: the title set by the first message of a session has at most
\* 30 characters, the ellipsis marker included; "Explain this function
\* please" gives "Explain this function pleas...".
C14_TitleThirtyInTotal ==
    [][\A via \in {"enter", "button"} :
          ( /\ HandleChat(via)
            /\ activeSessionId \in Ids(sessions)
            /\ MessagesOf(sessions, activeSessionId) = <<>> )
          => /\ Len(TitleIn(sessions', activeSessionId)) <= TitleLimit
             /\ chatInput = InExplain
                    => TitleIn(sessions', activeSessionId)
                           = ExplainTitleThirtyInTotal]_vars

\* C14 as amended: the title set by the first message of a session is the
\* first 30 characters of the message followed by the marker "...", which is
\* appended also when nothing was cut; "Explain this function please" gives
\* "Explain this function please...".
C14_TitleThirtyPlusEllipsis ==
    [][\A via \in {"enter", "button"} :
          ( /\ HandleChat(via)
            /\ activeSessionId \in Ids(sessions)
            /\ MessagesOf(sessions, activeSessionId) = <<>> )
          => LET title == TitleIn(sessions', activeSessionId)
                 kept == Min(Len(chatInput), TitleLimit)
             IN  /\ Len(title) = kept + 3
                 /\ SubSeq(title, 1, kept) = SubSeq(chatInput, 1, kept)
                 /\ SubSeq(title, kept + 1, kept + 3) = <<".", ".", ".">>
                 /\ chatInput = InExplain => title = ExplainTitleWithEllipsis
      ]_vars

\* C14 witness: "Explain this function please" was sent as the first message
\* of a session, whose title is now "Explain this function please..."
C14_Witness ==
    \E i \in DOMAIN sessions :
        /\ Len(sessions[i].messages) > 0
        /\ sessions[i].messages[1].role = "user"
        /\ sessions[i].messages[1].content = InExplain
        /\ sessions[i].title = ExplainTitleWithEllipsis

\* the user messages of a sequence of messages, in order
UserMessages(messages) == SelectSeq(messages, LAMBDA m : m.role = "user")

\* C15: in every reachable state, a session with at least one user message
\* has the truncated prefix of its first user message as its title, also when
\* an ingest acknowledgment precedes that message, and a session with no user
\* message has the title it was created with.
C15_TitleFromFirstUserMessage ==
    \A i \in DOMAIN sessions :
        LET users == UserMessages(sessions[i].messages) IN
        IF Len(users) > 0
        THEN sessions[i].title = TitleOf(users[1].content)
        ELSE sessions[i].title \in {NewChatTitle, RepoChatTitle}

\* C16: when the ingest call succeeds and the captured session is in the
\* collection, that session gets repoUrl set to the ingested URL and exactly
\* one AI acknowledgment appended to its messages (no user message), every
\* other session is unchanged, and the result is persisted.
C16_IngestSuccessUpdatesCapturedSession ==
    [][\A k \in DOMAIN pendingIngest :
          ( /\ ResolveIngest(k, TRUE)
            /\ pendingIngest[k].currentSessionId \in Ids(sessions) )
          => LET sid == pendingIngest[k].currentSessionId IN
             /\ sid \in Ids(sessions')
             /\ RepoUrlIn(sessions', sid) = pendingIngest[k].repoUrl
             /\ MessagesOf(sessions', sid)
                    = Append(MessagesOf(sessions, sid),
                             Message("ai", IngestedText, Undefined, now))
             /\ \A i \in DOMAIN sessions :
                   sessions[i].id # sid => sessions[i] \in Range(sessions')
             /\ \A j \in DOMAIN sessions' :
                   sessions'[j].id # sid => sessions'[j] \in Range(sessions)
             /\ JSONparse(localStorage') = sessions'
      ]_vars

\* C17: a failed ingest call sets ingestStatus to error and leaves the
\* collection as it is; once ingestStatus is error it stays error until the
\* user starts a new ingest: no other step, the delayed reset scheduled by an
\* earlier successful ingest included, changes it.
C17_IngestErrorStaysUntilNewIngest ==
    [][ /\ \A k \in DOMAIN pendingIngest :
              ResolveIngest(k, FALSE)
                  => /\ ingestStatus' = "error"
                     /\ sessions' = sessions
                     /\ localStorage' = localStorage
        /\ (ingestStatus = "error" /\ ingestStatus' # "error")
              => (HandleIngest /\ ingestStatus' = "loading")
      ]_vars

\* the entry /security of the command table
SecurityCommand == [cmd |-> <<"/", "s", "e", "c", "u", "r", "i", "t", "y">>]

\* C18: after the input changed to a text starting with "/", the suggestion
\* list holds exactly the commands of the table whose text starts with the
\* lower-cased input, and the panel is shown iff there is one; "/sec" and
\* "/SEC" give exactly /security with the panel shown, "/zzz" gives no
\* suggestion and the panel hidden, and a text not starting with "/" hides
\* the panel.
C18_SuggestionsAreMatchingCommands ==
    [][\A val \in PaletteInputs :
          HandleInputChange(val)
          => /\ chatInput' = val
             /\ val[1] = "/" =>
                    /\ Range(filteredCmds')
                           = {c \in Range(COMMANDS) :
                                 StartsWith(c.cmd, ToLowerCase(val))}
                    /\ Len(filteredCmds') = Cardinality(Range(filteredCmds'))
                    /\ showSuggestions' = (Len(filteredCmds') > 0)
             /\ val[1] # "/" => ~showSuggestions'
             /\ val \in {InSec, InSecUpper} =>
                    /\ filteredCmds' = <<SecurityCommand>>
                    /\ showSuggestions'
             /\ val = InZzz =>
                    /\ filteredCmds' = <<>>
                    /\ ~showSuggestions'
             /\ val = InSlash =>
                    /\ filteredCmds' = COMMANDS
                    /\ showSuggestions'
      ]_vars

\* C18 witness: "/SEC" was typed and the panel shows exactly /security
C18_Witness ==
    /\ chatInput = InSecUpper
    /\ showSuggestions
    /\ filteredCmds = <<SecurityCommand>>

\* "/security" followed by one space
SecurityCommandInput ==
    <<"/", "s", "e", "c", "u", "r", "i", "t", "y", " ">>

\* C19: selecting a command sets the input to the command text followed by
\* one space and closes the panel; Escape in the input or a click on the
\* transcript closes the panel and leaves the input as it is; none of them
\* changes the session collection, in memory or persisted, or starts a
\* backend call.
C19_SelectAndCloseLeaveSessionsAlone ==
    [][ /\ \A k \in DOMAIN COMMANDS :
              SelectCommand(k)
              => /\ Len(chatInput') = Len(COMMANDS[k].cmd) + 1
                 /\ SubSeq(chatInput', 1, Len(COMMANDS[k].cmd)) = COMMANDS[k].cmd
                 /\ chatInput'[Len(chatInput')] = " "
                 /\ COMMANDS[k] = SecurityCommand
                        => chatInput' = SecurityCommandInput
                 /\ ~showSuggestions'
                 /\ sessions' = sessions
                 /\ localStorage' = localStorage
                 /\ pendingChat' = pendingChat
                 /\ pendingIngest' = pendingIngest
        /\ CloseSuggestions
              => /\ ~showSuggestions'
                 /\ chatInput' = chatInput
                 /\ sessions' = sessions
                 /\ localStorage' = localStorage
                 /\ pendingChat' = pendingChat
                 /\ pendingIngest' = pendingIngest
      ]_vars

\* C19 witness: /security was selected while a call was pending: the input is
\* "/security " and the panel is closed
C19_Witness ==
    /\ chatInput = SecurityCommandInput
    /\ ~showSuggestions
    /\ pendingChat # {}

\* C20: the cleanup is idempotent: the text handed to the render engine, which
\* is the cleanup of the chart text, is its own cleanup.
C20_SanitizeIdempotent ==
    \A k \in DOMAIN pendingRender :
        Sanitize(pendingRender[k].cleanChart) = pendingRender[k].cleanChart

-----------------------------------------------------------------------------
(* C21 .. C30 *)

\* the labels of the arrows of the shape -- <label> --> in the text s, at any
\* position of s
EdgeLabels(s) ==
    {SubSeq(s, i + 3, i + 2 + LabelLength(SubSeq(s, i + 3, Len(s)), 0)) :
        i \in {j \in 1..Len(s) :
                  /\ StartsWith(SubSeq(s, j, Len(s)), <<"-", "-", " ">>)
                  /\ LabelLength(SubSeq(s, j + 3, Len(s)), 0) >= 0}}

\* the label l is wrapped in one pair of double quotes and has no double
\* quote inside
QuotedLabel(l) ==
    /\ Len(l) >= 2
    /\ l[1] = "\""
    /\ l[Len(l)] = "\""
    /\ \A i \in 2..(Len(l) - 1) : l[i] # "\""

\* C21: in the text handed to the render engine every label of an arrow of
\* the shape -- <label> --> is wrapped in one pair of double quotes and has
\* no double quote inside, wherever the arrow stands, the very start of the
\* text included.
C21_EdgeLabelsQuoted ==
    \A k \in DOMAIN pendingRender :
        \A l \in EdgeLabels(pendingRender[k].cleanChart) : QuotedLabel(l)

RECURSIVE Decoded(_)
\* the text s with each of the three entities read as the character it
\* stands for, in one pass from left to right
Decoded(s) ==
    IF Len(s) = 0 THEN s
    ELSE IF StartsWith(s, EntityGt)
    THEN <<">">> \o Decoded(SubSeq(s, Len(EntityGt) + 1, Len(s)))
    ELSE IF StartsWith(s, EntityLt)
    THEN <<"<">> \o Decoded(SubSeq(s, Len(EntityLt) + 1, Len(s)))
    ELSE IF StartsWith(s, EntityQuot)
    THEN <<"\"">> \o Decoded(SubSeq(s, Len(EntityQuot) + 1, Len(s)))
    ELSE <<s[1]>> \o Decoded(Tail(s))

\* the text s contains the text part
Contains(s, part) ==
    \E i \in 1..(Len(s) + 1) : StartsWith(SubSeq(s, i, Len(s)), part)

\* C22: the cleanup treats each &gt;, &lt; and &quot; of the chart text as the
\* character >, < and " it stands for: the text handed to the render engine
\* is the cleanup of the chart text with the entities already replaced, and
\* for the chart &lt;A&gt; it contains <A>.
C22_EntitiesUnescaped ==
    \A k \in DOMAIN pendingRender :
        /\ pendingRender[k].cleanChart = Sanitize(Decoded(pendingRender[k].chart))
        /\ pendingRender[k].chart = ChartEscaped
               => Contains(pendingRender[k].cleanChart, <<"<", "A", ">">>)
        /\ pendingRender[k].chart = ChartQuotEntity
               => ~Contains(pendingRender[k].cleanChart, EntityQuot)

\* C22 witness: the render of &lt;A&gt; is pending and its cleaned text is <A>
C22_Witness ==
    \E k \in DOMAIN pendingRender :
        /\ pendingRender[k].chart = ChartEscaped
        /\ pendingRender[k].cleanChart = <<"<", "A", ">">>

\* C23: for an empty or whitespace-only chart text the render effect sets the
\* status to empty and starts no cleanup and no render for it, so that no
\* render of such a text is ever pending, and the component returns nothing.
C23_BlankChartIsEmpty ==
    /\ [](\A k \in DOMAIN pendingRender : ~Blank(pendingRender[k].chart))
    /\ [][ ((MermaidMount \/ \E c \in Charts : ChartChange(c)) /\ Blank(chart'))
           => /\ status' = "empty"
              /\ pendingRender' = pendingRender
              /\ svg' = svg
              /\ View'.kind = "null"
         ]_vars

\* C23 witness: the chart text became white space only while a diagram was
\* shown: the status is empty and no render is pending
C23_Witness ==
    /\ rendered
    /\ chart = ChartBlank
    /\ svg # <<>>
    /\ status = "empty"
    /\ pendingRender = <<>>

\* C24: the render state is that of the current chart text: for an empty or
\* whitespace-only text the status is empty, a diagram shown is the diagram
\* of the current text, and the status is loading only while the render of
\* the current text is pending; a render of an earlier text that ends late
\* changes none of this.
C24_RenderStateOfCurrentSource ==
    rendered =>
        /\ Blank(chart) => status = "empty"
        /\ status = "success" => svg = Svg(Sanitize(chart))
        /\ status = "loading"
               => \E k \in DOMAIN pendingRender : pendingRender[k].chart = chart

\* C25: when the call of the render engine fails, the status goes from loading
\* to error, the session collection and the stored history are untouched, and
\* the error view shows the chart text the failed render was started for, as
\* received and not as cleaned.
C25_RenderFailureShowsOriginal ==
    [][\A k \in DOMAIN pendingRender :
          ResolveRender(k, FALSE)
          => /\ status = "loading"
             /\ status' = "error"
             /\ sessions' = sessions
             /\ localStorage' = localStorage
             /\ View'.kind = "error"
             /\ View'.text = pendingRender[k].chart
      ]_vars

RECURSIVE ZoomInTimes(_, _)
\* the zoom level after n zoom-ins from z
ZoomInTimes(n, z) == IF n = 0 THEN z ELSE ZoomInTimes(n - 1, ZoomedIn(z))

\* C26: zoomLevel is within [0.5, 5.0] in every state; a zoom-in adds 0.25 and
\* stops at 5.0, a zoom-out subtracts 0.25 and stops at 0.5; from 0.5,
\* 17 zoom-ins give 4.75.
C26_ZoomLevelClamped ==
    /\ [](/\ 50 <= zoomLevel
          /\ zoomLevel <= 500
          /\ zoomLevel = 50 => ZoomInTimes(17, zoomLevel) = 475)
    /\ [][\A via \in {"button", "wheel"} :
             /\ ZoomIn(via)
                  => zoomLevel' = IF zoomLevel + 25 > 500 THEN 500
                                  ELSE zoomLevel + 25
             /\ ZoomOut(via)
                  => zoomLevel' = IF zoomLevel - 25 < 50 THEN 50
                                  ELSE zoomLevel - 25
        ]_vars

\* C26 witness: the overlay is open and zoomed in to the cap
C26_Witness ==
    /\ View.overlay
    /\ zoomLevel = ZoomMax

\* C27: whenever isZoomed goes from true to false, by the close control, a
\* click on the backdrop or the Escape key, after whatever zoom changes,
\* zoomLevel is 1.0 in the state that follows; zoomLevel is 1.0 whenever the
\* overlay is closed, so it is 1.0 when the overlay opens.
C27_ZoomResetOnClose ==
    /\ [](~isZoomed => zoomLevel = 100)
    /\ [][ /\ (isZoomed /\ ~isZoomed') => zoomLevel' = 100
           /\ ((\E via \in {"close", "backdrop", "wrapper"} : CloseZoom(via))
                   \/ EscapeKey)
                  => ~isZoomed' /\ zoomLevel' = 100
           /\ OpenZoom => isZoomed' /\ zoomLevel' = 100
         ]_vars

\* C27 witness: the overlay is open and zoomed out to the floor, the state in
\* which each way of closing it acts
C27_Witness ==
    /\ View.overlay
    /\ zoomLevel = ZoomMin
    /\ pendingRender = <<>>

\* C28: while the overlay is open, Reset sets zoomLevel to 1.0 and leaves
\* isZoomed true; the zoom-in, zoom-out and reset controls, a click on the
\* control bar and a click on the diagram leave isZoomed true; isZoomed goes
\* to false only by the close control, the backdrop or the Escape key.
C28_OnlyCloseControlsClose ==
    [][ View.overlay =>
          /\ ResetZoom => zoomLevel' = 100 /\ isZoomed'
          /\ \A via \in {"button", "wheel"} :
                (ZoomIn(via) \/ ZoomOut(via)) => isZoomed'
          /\ ClickControlBar => isZoomed' /\ zoomLevel' = zoomLevel
          /\ ClickDiagram => isZoomed' /\ zoomLevel' = zoomLevel
          /\ ~isZoomed'
                => \/ \E via \in {"close", "backdrop", "wrapper"} : CloseZoom(via)
                   \/ EscapeKey
      ]_vars

\* C28 witness: the overlay is still open after one zoom-in
C28_Witness ==
    /\ View.overlay
    /\ zoomLevel = ZoomDefault + ZoomStep

\* C29: on the page of app/page.tsx, when the ask-codebase call of a turn
\* fails, the session of the turn ends with the user message of the turn
\* followed by an AI message carrying the fixed error text, the collection is
\* persisted with it, and chatLoading is false.
C29_PageFailureAppendsErrorMessage ==
    [][\A p \in pendingChat :
          PageResolveChat(p, Rejected)
          => LET ms == MessagesOf(sessions', p.currentSessionId)
             IN  /\ Len(ms) >= 2
                 /\ ms[Len(ms) - 1] = p.userMsg
                 /\ ms[Len(ms)].role = "ai"
                 /\ ms[Len(ms)].content = ErrorText
                 /\ localStorage' = JSONstringify(sessions')
                 /\ ~chatLoading'
      ]_vars

\* C30: the text handed to the render engine contains no semicolon and no
\* fence of three backticks, whatever the chart text, also when the removal of
\* other characters is what brings the three backticks together.
C30_NoSemicolonNoFence ==
    \A k \in DOMAIN pendingRender :
        /\ ~Contains(pendingRender[k].cleanChart, <<";">>)
        /\ ~Contains(pendingRender[k].cleanChart, Fence)

-----------------------------------------------------------------------------
(* C31 .. C34 *)

\* C31: at most one ask-codebase call is pending at any time, and chatLoading
\* is true in exactly the states in which a call is pending.
C31_OneCallPending ==
    /\ Cardinality(pendingChat) <= 1
    /\ chatLoading <=> pendingChat # {}

\* the collection ss without its i-th session
RemoveAt(ss, i) == SubSeq(ss, 1, i - 1) \o SubSeq(ss, i + 1, Len(ss))

\* C32: a confirmed deleteSession of a session that is not the active one
\* removes that session and nothing else: the other sessions keep their order
\* and content, in memory and persisted, and activeSessionId and repoUrl are
\* unchanged; a declined confirmation changes nothing.
C32_DeleteInactiveSession ==
    [][\A i \in DOMAIN sessions :
          /\ (DeleteSession(i, TRUE) /\ sessions[i].id # activeSessionId)
                => /\ sessions' = RemoveAt(sessions, i)
                   /\ localStorage' = JSONstringify(RemoveAt(sessions, i))
                   /\ activeSessionId' = activeSessionId
                   /\ repoUrl' = repoUrl
                   /\ chatInput' = chatInput
                   /\ pendingChat' = pendingChat
          /\ DeleteSession(i, FALSE) => UNCHANGED vars
      ]_vars

\* C32 witness: of the two stored sessions the older one was deleted while
\* the newer one is active
C32_Witness ==
    /\ mounted
    /\ sessions = <<StoredB>>
    /\ activeSessionId = StoredB.id
    /\ localStorage = JSONstringify(<<StoredB>>)

\* C33: whenever the suggestion panel is shown, the chat input starts with "/"
\* and the list shown is not empty and is the commands of the table, in the
\* order of the table, that start with the lower-cased input.
C33_PanelShowsMatchesOfInput ==
    showSuggestions =>
        /\ Len(chatInput) > 0
        /\ chatInput[1] = "/"
        /\ Len(filteredCmds) > 0
        /\ filteredCmds =
               SelectSeq(COMMANDS,
                         LAMBDA c : IsPrefix(ToLowerCase(chatInput), c.cmd))

\* C33 witness: "/sec" was typed after a message was sent: the panel is shown
\* while the call is pending
C33_Witness ==
    /\ showSuggestions
    /\ chatInput = InSec
    /\ pendingChat # {}

\* C34: the overlay state does not outlive the diagram it was opened on:
\* isZoomed is true only while the status is success and the diagram shown is
\* that of the current chart text, and zoomLevel differs from 1.0 only then.
C34_OverlayOfCurrentDiagram ==
    /\ isZoomed => /\ status = "success"
                   /\ svg = Svg(Sanitize(chart))
    /\ zoomLevel # ZoomDefault => /\ status = "success"
                                  /\ svg = Svg(Sanitize(chart))

====
